---- MODULE Spec2Model ----
(***************************************************************************)
(* Model of parse.py: the byte cursor (BinaryReader), the deserializer     *)
(* (PatchParser.parse), the name resolver (Disassembler._type_name) and    *)
(* the instruction disassembler (format_val, print_code).                  *)
(*                                                                         *)
(* Text is a sequence of one-character strings; bytes are 0..255; a 32-bit *)
(* signed integer is an Int in -2^31..2^31-1; a 64-bit pattern is kept as  *)
(* its 8 little-endian bytes.                                              *)
(*                                                                         *)
(* Three specifications share the variables:                               *)
(*   Spec      print_code over one method's instruction slots              *)
(*   SpecName  _type_name applied to a name, and to its own result         *)
(*   SpecParse PatchParser.parse over a byte buffer                        *)
(***************************************************************************)
EXTENDS Integers, Sequences, FiniteSets, TLC

VARIABLES
    p,        \* the PatchFile: filled by parse, read by the Disassembler
    debug,    \* Disassembler.debug
    insts,    \* print_code: method['instructions'] of the method listed
    idx,      \* print_code: the loop index
    dpc,      \* print_code: "loop" | "done" | "raised"
    last,     \* print_code: the line emitted by the latest iteration
    lines,    \* print_code: the number of lines emitted so far, modulo 2
    tn,       \* _type_name calls: [phase, first, second]
    data,     \* BinaryReader: the buffer (a sequence of bytes)
    pos,      \* BinaryReader: stream position (0-based)
    pc,       \* parse: the statement reached
    left,     \* parse: iterations left of the current for-loop
    cur,      \* parse: the locals of the record being read
    err,      \* parse: "" or the exception that ended it
    ri,       \* the latest read_instructions call
    storey,   \* the latest anonymous-storey record read
    src       \* the container the buffer was cut from: [full, cut, arrays]

vars == <<p, debug, insts, idx, dpc, last, lines, tn, data, pos, pc, left, cur, err, ri, storey, src>>

disVars == <<insts, idx, dpc, last, lines>>
parseVars == <<data, pos, pc, left, cur, err, ri, storey, src>>

----------------------------------------------------------------------------
(* Bounds of the model *)

\* slots that follow the first slot of a method
MaxTail == 2
\* operands of the first slot range over -MaxOperand..MaxOperand (and a few wide values)
MaxOperand == 4
\* the disassembler's tables hold 0..MaxTable entries
MaxTable == 1

----------------------------------------------------------------------------
(* Text helpers *)

Digits == <<"0", "1", "2", "3", "4", "5", "6", "7", "8", "9">>
HexDigits == <<"0", "1", "2", "3", "4", "5", "6", "7", "8", "9", "A", "B", "C", "D", "E", "F">>

RECURSIVE DecNat(_)
DecNat(n) == IF n < 10 THEN <<Digits[n + 1]>> ELSE DecNat(n \div 10) \o <<Digits[(n % 10) + 1]>>

\* str(n) of a 32-bit signed integer (the last digit is split off first, so that
\* -2^31 is never negated)
Dec(n) ==
    IF n >= 0 THEN DecNat(n)
    ELSE LET d == (10 - (n % 10)) % 10
             rest == (-(n + d)) \div 10
         IN  <<"-">> \o (IF rest = 0 THEN <<>> ELSE DecNat(rest)) \o <<Digits[d + 1]>>

RECURSIVE HexNat(_)
HexNat(n) == IF n < 16 THEN <<HexDigits[n + 1]>> ELSE HexNat(n \div 16) \o <<HexDigits[(n % 16) + 1]>>

RECURSIVE ZeroPad(_, _)
ZeroPad(s, w) == IF Len(s) >= w THEN s ELSE ZeroPad(<<"0">> \o s, w)

\* f"{t:0wX}": the sign counts in the width
FormatHex(t, w) ==
    IF t >= 0 THEN ZeroPad(HexNat(t), w)
    ELSE <<"-">> \o ZeroPad(HexNat(-t), w - 1)

\* f"{t:04X}"
Format04X(t) == FormatHex(t, 4)

\* f"IL_{t:04X}"
Label(t) == <<"I", "L", "_">> \o Format04X(t)

RECURSIVE Join(_, _)
Join(sep, parts) ==
    IF parts = <<>> THEN <<>>
    ELSE IF Len(parts) = 1 THEN parts[1]
    ELSE parts[1] \o sep \o Join(sep, Tail(parts))

\* Python list indexing: a negative index counts from the end, IndexError outside
PyIndexOk(list, i) == -Len(list) <= i /\ i < Len(list)
PyIndex(list, i) == IF i >= 0 THEN list[i + 1] ELSE list[Len(list) + i + 1]

----------------------------------------------------------------------------
(* Opcode table *)

OPCODE_MAP_UNITY == {
    <<0, "Conv_I1">>, <<1, "Ldelem_I">>, <<2, "Cgt">>, <<3, "Mul">>, <<5, "Stobj">>,
    <<6, "Ldftn">>, <<7, "Conv_I8">>, <<8, "Ldloca">>, <<9, "Shr">>, <<11, "Bgt">>,
    <<12, "Callvirtvirt">>, <<13, "Ldarga">>, <<15, "Ldobj">>, <<16, "Ldobj">>,
    <<17, "Bgt_Un">>, <<19, "Conv_Ovf_I4">>, <<20, "Shl">>, <<21, "Neg">>, <<22, "Box">>,
    <<23, "Stelem_Ref">>, <<24, "Isinst">>, <<25, "Newarr_Prim">>, <<27, "Ldelem_I1">>,
    <<28, "Ldc_I8">>, <<29, "Conv_U4">>, <<30, "Bge_Un">>, <<33, "Ble_Un">>,
    <<34, "Ldflda">>, <<35, "Conv_U2">>, <<36, "Stloc">>, <<37, "Conv_I8">>,
    <<39, "Ldstr">>, <<40, "Cgt_Un">>, <<41, "Stind_I4">>, <<42, "Conv_I2">>,
    <<43, "Beq">>, <<44, "Stind_R8">>, <<45, "Call">>, <<46, "Conv_I1">>, <<47, "Blt_Un">>,
    <<48, "Stelem_I8">>, <<49, "Conv_Ovf_I4_Un">>, <<51, "Stind_I1">>, <<52, "Ldelem_R4">>,
    <<53, "Unbox">>, <<55, "Conv_Ovf_U8">>, <<56, "Ldobj">>, <<57, "Conv_R4">>,
    <<58, "Conv_R4">>, <<59, "Conv_Ovf_U2">>, <<60, "Ldsfld">>, <<61, "Conv_U1">>,
    <<62, "Starg">>, <<63, "Conv_I2">>, <<64, "Conv_Ovf_I4">>, <<65, "Rethrow">>,
    <<66, "Stelem_I4">>, <<67, "Newanon">>, <<68, "Conv_R8">>, <<69, "Conv_Ovf_I1">>,
    <<71, "Add_Ovf_Un">>, <<72, "Ldloc">>, <<73, "Calli">>, <<74, "Ldelem_I2">>,
    <<75, "Stfld">>, <<76, "Not">>, <<77, "Ldobj">>, <<78, "Conv_U1">>, <<79, "Or">>,
    <<80, "Add">>, <<81, "Ldobj">>, <<82, "Ldelem_Ref">>, <<83, "Ldobj">>, <<84, "Div">>,
    <<85, "Stsfld">>, <<86, "Ldobj">>, <<87, "Throw">>, <<88, "Castclass">>,
    <<89, "Newarr">>, <<90, "Xor">>, <<91, "Mul_Ovf_Un">>, <<93, "Br">>, <<94, "Ldtoken">>,
    <<95, "Ldtype">>, <<96, "Stobj">>, <<97, "Call">>, <<98, "Ldelem_U2">>,
    <<99, "Stind_Ref">>, <<100, "Ldc_R8">>, <<101, "Conv_Ovf_I2">>, <<103, "Ret">>,
    <<105, "Ret">>, <<108, "Conv_Ovf_U2">>, <<109, "Blt">>, <<110, "Bne_Un">>,
    <<111, "Blt_Un">>, <<112, "Conv_U4">>, <<113, "Stelem_I1">>, <<115, "Stind_I2">>,
    <<116, "Blt">>, <<117, "Initobj">>, <<119, "Stind_R4">>, <<120, "Conv_U8">>,
    <<121, "Stelem_R8">>, <<122, "Callvirt">>, <<123, "Ldelem_I1">>, <<124, "Stelem_R4">>,
    <<125, "Bge">>, <<126, "Sub">>, <<127, "Brtrue">>, <<128, "Pop">>,
    <<129, "Stelem_Ref">>, <<130, "Div_Un">>, <<131, "Conv_U1">>, <<132, "Stelem_I8">>,
    <<133, "Unbox_Any">>, <<134, "Brfalse">>, <<135, "Unbox_Any">>, <<136, "Add_Ovf">>,
    <<137, "Ldobj">>, <<138, "Calli">>, <<139, "Ldlen">>, <<140, "Conv_U4">>,
    <<141, "Ldc_I4">>, <<143, "Ldc_I4">>, <<144, "Dup">>, <<145, "Conv_Ovf_U8">>,
    <<147, "Stelem_I">>, <<148, "And">>, <<149, "Switch">>, <<150, "Conv_U4">>,
    <<151, "Newobj">>, <<153, "Leave">>, <<155, "Ldobj">>, <<156, "Ldelem_U4">>,
    <<158, "Stind_Ref">>, <<159, "Ldelem_R8">>, <<160, "Rem">>, <<161, "Box">>,
    <<162, "Ldvirtftn">>, <<163, "Conv_Ovf_I1">>, <<164, "Ldarg">>, <<165, "Stind">>,
    <<166, "Ceq">>, <<167, "Ldfld">>, <<168, "Ldobj">>, <<169, "Shr_Un">>,
    <<170, "Ldelem_I4">>, <<171, "Rem_Un">>, <<172, "Ldobj">>, <<173, "Ret">>,
    <<174, "Conv_R8">>, <<175, "Stelem_Ref">>, <<176, "Ble">>, <<177, "Rethrow">>,
    <<178, "Conv_U8">>, <<179, "Mul">>
}

OpNameOf(c) == (CHOOSE e \in OPCODE_MAP_UNITY : e[1] = c)[2]

OperandTypeOf(n) ==
    IF n \in {"Ldc_I4", "Ldc_R4", "Ldc_I4_S"} THEN "InlineInt"
    ELSE IF n = "Ldstr" THEN "InlineString"
    ELSE IF n \in {"Ldc_I8", "Ldc_R8"} THEN "Inline8Byte"
    ELSE IF n \in {"Ldarg", "Ldarga", "Ldloc", "Ldloca", "Stloc", "Starg"} THEN "InlineVar"
    ELSE IF n \in {"Br", "Brtrue", "Brfalse", "Beq", "Bne_Un", "Bge", "Bgt", "Ble", "Blt",
                   "Bge_Un", "Bgt_Un", "Ble_Un", "Blt_Un", "Leave"} THEN "InlineBrTarget"
    ELSE IF n = "Switch" THEN "InlineSwitch"
    ELSE IF n \in {"Call", "Callvirt", "Newobj", "Ldftn", "Ldvirtftn", "Callvirtvirt", "Calli"}
         THEN (IF n = "Newobj" THEN "InlineType" ELSE "InlineMethod")
    ELSE IF n \in {"Ldfld", "Ldflda", "Stfld", "Ldsfld", "Stsfld"} THEN "InlineField"
    ELSE IF n \in {"Box", "Unbox", "Isinst", "Castclass", "Newarr", "Ldobj", "Stobj", "Initobj",
                   "Newanon", "Ldtype", "Unbox_Any"} THEN "InlineType"
    ELSE IF n = "Ldtoken" THEN "InlineTok"
    ELSE "InlineNone"

\* register_op(146, 'StackSpace', OperandType.InlineStackSpace, FlowControl.Meta)
StackSpaceCode == 146

\* the keys of OPCODES
OpcodeKeys == {e[1] : e \in OPCODE_MAP_UNITY} \cup {StackSpaceCode}

\* OPCODES.get(code) for a key: [code, name, operand_type]
OPCODES(c) ==
    IF c = StackSpaceCode
    THEN [code |-> c, name |-> "StackSpace", operand_type |-> "InlineStackSpace"]
    ELSE [code |-> c, name |-> OpNameOf(c), operand_type |-> OperandTypeOf(OpNameOf(c))]

----------------------------------------------------------------------------
(* Name resolver *)

DigitChars == {Digits[i] : i \in 1..10}
LetterChars == {"A", "B", "C", "K", "L", "P", "T", "V", "X", "Y", "Z",
                "b", "c", "e", "i", "k", "l", "n", "o", "r", "s", "t", "u", "x", "y"}
\* [\d\.]
VersionClass == DigitChars \cup {"."}
\* [\w-]
CultureClass == DigitChars \cup LetterChars \cup {"_", "-"}
\* \w
TokenClass == DigitChars \cup LetterChars \cup {"_"}
\* what str.strip() removes
Whitespace == {" ", "\t", "\n", "\r"}

VersionPrefix == <<",", " ", "V", "e", "r", "s", "i", "o", "n", "=">>
CulturePrefix == <<",", " ", "C", "u", "l", "t", "u", "r", "e", "=">>
PublicKeyTokenPrefix ==
    <<",", " ", "P", "u", "b", "l", "i", "c", "K", "e", "y", "T", "o", "k", "e", "n", "=">>

StartsWith(s, prefix) == Len(s) >= Len(prefix) /\ SubSeq(s, 1, Len(prefix)) = prefix

\* length of the longest run of characters of cls at the start of s
RECURSIVE RunLen(_, _)
RunLen(cls, s) == IF s # <<>> /\ Head(s) \in cls THEN 1 + RunLen(cls, Tail(s)) ELSE 0

\* length of the match of  prefix cls+  at the start of s, 0 when there is none
MatchLen(prefix, cls, s) ==
    IF StartsWith(s, prefix) /\ RunLen(cls, SubSeq(s, Len(prefix) + 1, Len(s))) > 0
    THEN Len(prefix) + RunLen(cls, SubSeq(s, Len(prefix) + 1, Len(s)))
    ELSE 0

\* where the leftmost match of  prefix cls+  in s starts, 1-based; 0 when there is none
FirstMatch(prefix, cls, s) ==
    LET starts == {i \in 1..Len(s) : MatchLen(prefix, cls, SubSeq(s, i, Len(s))) > 0}
    IN  IF starts = {} THEN 0 ELSE CHOOSE i \in starts : \A j \in starts : i <= j

\* re.sub(prefix cls+, '', s): one left-to-right pass over non-overlapping matches
RECURSIVE ReSub(_, _, _)
ReSub(prefix, cls, s) ==
    LET i == FirstMatch(prefix, cls, s)
    IN  IF i = 0 THEN s
        ELSE SubSeq(s, 1, i - 1)
             \o ReSub(prefix, cls, SubSeq(s, i + MatchLen(prefix, cls, SubSeq(s, i, Len(s))), Len(s)))

Contains(s, c) == \E i \in 1..Len(s) : s[i] = c

\* s.find(c), 1-based; 0 when absent
Find(s, c) == IF Contains(s, c) THEN CHOOSE i \in 1..Len(s) : s[i] = c /\ \A j \in 1..(i - 1) : s[j] # c ELSE 0

\* s.rfind(c), 1-based; 0 when absent
RFind(s, c) == IF Contains(s, c) THEN CHOOSE i \in 1..Len(s) : s[i] = c /\ \A j \in (i + 1)..Len(s) : s[j] # c ELSE 0

RECURSIVE LStrip(_)
LStrip(s) == IF s # <<>> /\ Head(s) \in Whitespace THEN LStrip(Tail(s)) ELSE s

RECURSIVE RStrip(_)
RStrip(s) == IF s # <<>> /\ s[Len(s)] \in Whitespace THEN RStrip(SubSeq(s, 1, Len(s) - 1)) ELSE s

Strip(s) == RStrip(LStrip(s))

\* the three re.sub calls of _type_name
StripQualifiers(full_name) ==
    ReSub(PublicKeyTokenPrefix, TokenClass,
          ReSub(CulturePrefix, CultureClass,
                ReSub(VersionPrefix, VersionClass, full_name)))

\* the truncation of _type_name
Truncate(full_name) ==
    IF ~Contains(full_name, "[")
    THEN Strip(IF Contains(full_name, ",") THEN SubSeq(full_name, 1, Find(full_name, ",") - 1)
               ELSE full_name)
    ELSE LET last_bracket == RFind(full_name, "]")
         IN  IF last_bracket # 0 /\ Contains(SubSeq(full_name, last_bracket + 1, Len(full_name)), ",")
             THEN SubSeq(full_name, 1, last_bracket)
             ELSE full_name

\* the body of "if not self.debug:" in _type_name
NormalizeName(full_name) == Truncate(StripQualifiers(full_name))

\* what _type_name does to the stored name, by the debug flag
ApplyDebugPolicy_twoTier(dbg, full_name) ==
    IF ~dbg THEN NormalizeName(full_name) ELSE StripQualifiers(full_name)
ApplyDebugPolicy(dbg, full_name) == IF ~dbg THEN NormalizeName(full_name) ELSE full_name

\* the listings are modelled as run with --no-color
use_color == FALSE
ColorCyan == <<"\\033[96m">>
ColorEnd == <<"\\033[0m">>
Colorize(text) == IF ~use_color THEN text ELSE ColorCyan \o text \o ColorEnd

TypeInRange(pf, i) == 0 <= i /\ i < Len(pf.extern_types)

\* Disassembler._type_name: [raised, text]
type_name(pf, dbg, i) ==
    IF TypeInRange(pf, i)
    THEN IF PyIndexOk(pf.extern_types, i)
         THEN [raised |-> FALSE, text |-> Colorize(ApplyDebugPolicy(dbg, PyIndex(pf.extern_types, i)))]
         ELSE [raised |-> TRUE, text |-> <<>>]
    ELSE [raised |-> FALSE,
          text |-> <<"U", "n", "k", "n", "o", "w", "n", "T", "y", "p", "e", "(">> \o Dec(i) \o <<")">>]

----------------------------------------------------------------------------
(* Instruction disassembler: format_val *)

\* struct.pack('<i', x): the 4 little-endian bytes of a 32-bit signed integer
Int32Bytes(x) == <<x % 256, (x \div 256) % 256, (x \div 65536) % 256, (x \div 16777216) % 256>>

\* struct.pack('<ii', next_code, next_op)
Pack8_swapped(next_code, next_op) == Int32Bytes(next_op) \o Int32Bytes(next_code)
Pack8(next_code, next_op) == Int32Bytes(next_code) \o Int32Bytes(next_op)

\* struct.unpack('<d', raw_bytes): sign, biased exponent and the 52 fraction bits
\* (the low nibble of byte 7, then bytes 6..1, most significant first)
UnpackDouble(raw) ==
    [sign |-> raw[8] \div 128,
     exp  |-> (raw[8] % 128) * 16 + (raw[7] \div 16),
     frac |-> <<raw[7] % 16, raw[6], raw[5], raw[4], raw[3], raw[2], raw[1]>>]

RECURSIVE DropLeadingZeros(_)
DropLeadingZeros(s) == IF Len(s) > 1 /\ Head(s) = "0" THEN DropLeadingZeros(Tail(s)) ELSE s

\* f"{struct.unpack('<Q', raw_bytes)[0]:X}"
HexOfUInt64(raw) ==
    DropLeadingZeros(
        [k \in 1..16 |-> LET b == raw[8 - ((k - 1) \div 2)]
                         IN  HexDigits[(IF k % 2 = 1 THEN b \div 16 ELSE b % 16) + 1]])

\* repr of the double: written out for the values the model's slots produce as
\* zero or 16.0, and as one token for any other bit pattern
DoubleRepr(d) ==
    IF d.exp = 0 /\ d.frac = <<0, 0, 0, 0, 0, 0, 0>>
    THEN (IF d.sign = 1 THEN <<"-">> ELSE <<>>) \o <<"0", ".", "0">>
    ELSE IF d.sign = 0 /\ d.exp = 1027 /\ d.frac = <<0, 0, 0, 0, 0, 0, 0>> THEN <<"1", "6", ".", "0">>
    ELSE <<"<double>">>

\* str of struct.unpack('<q', raw_bytes): written out when the value fits 32 bits
Int64Repr(next_code, next_op) ==
    IF (next_code >= 0 /\ next_op = 0) \/ (next_code < 0 /\ next_op = -1) THEN Dec(next_code)
    ELSE <<"<int64>">>

\* slots_needed = (count + 1) // 2
slots_needed_half(count) == count \div 2
slots_needed(count) == (count + 1) \div 2

\* target = idx + operand
BrTarget_abs(i, operand) == operand
BrTarget(i, operand) == i + operand

\* the label of one switch target: f'IL_{idx + t:04X}'
SwitchLabel_slot(i, slot, t) == Label(slot + t)
SwitchLabel(i, slot, t) == Label(i + t)

\* mid = operand & 0xFFFF ; narg = operand >> 16
MethodId(operand) == operand % 65536
MethodArgs(operand) == operand \div 65536

\* the bounds tests that guard the table reads
StringInRange_noLower(pf, operand) == operand < Len(pf.intern_strings)
StringInRange(pf, operand) == 0 <= operand /\ operand < Len(pf.intern_strings)
FieldInRange(pf, operand) == 0 <= operand /\ operand < Len(pf.fields)
MethodInRange(pf, mid) == mid < Len(pf.extern_methods)

\* the while loop of the InlineSwitch branch: the targets collected
RECURSIVE SwitchTargets(_, _, _, _, _)
SwitchTargets(code, i, count, current_slot, targets) ==
    IF current_slot < slots_needed(count) /\ ~(i + 1 + current_slot >= Len(code))
    THEN LET s == PyIndex(code, i + 1 + current_slot)
             t1 == Append(targets, s[1])
             t2 == IF Len(t1) < count THEN Append(t1, s[2]) ELSE t1
         IN  SwitchTargets(code, i, count, current_slot + 1, t2)
    ELSE targets

\* the float reinterpretation test of the InlineInt branch, on the bits of the
\* operand: 0.0001 < abs(f_val) < 1000000 or f_val == 0.0, where the float32 next
\* above 0.0001 has the bits 0x38D1B718 and 1000000.0 the bits 0x49742400
FloatShown(operand) ==
    LET absbits == IF operand >= 0 THEN operand ELSE (operand + 2147483647) + 1
    IN  (953267992 <= absbits /\ absbits < 1232348160) \/ absbits = 0

AbsGt1000(operand) == operand > 1000 \/ operand < -1000

Quote == "\""

NoVal == [kind |-> "none"]

Result(text, n) == [val_str |-> text, consumed |-> n, raised |-> FALSE, targets |-> <<>>, val |-> NoVal]
Raised == [val_str |-> <<>>, consumed |-> 0, raised |-> TRUE, targets |-> <<>>, val |-> NoVal]

\* the InlineMethod branch
FormatMethod(pf, dbg, operand) ==
    LET mid == MethodId(operand)
        narg == MethodArgs(operand)
    IN  IF MethodInRange(pf, mid)
        THEN IF ~PyIndexOk(pf.extern_methods, mid) THEN Raised
             ELSE LET m == PyIndex(pf.extern_methods, mid)
                      t == type_name(pf, dbg, m.type_id)
                      ga == [k \in 1..Len(m.generic_args) |-> type_name(pf, dbg, m.generic_args[k])]
                      args == IF m.generic_args # <<>>
                              THEN <<"<">> \o Join(<<",">>, [k \in 1..Len(ga) |-> ga[k].text]) \o <<">">>
                              ELSE <<>>
                  IN  IF t.raised \/ \E k \in 1..Len(ga) : ga[k].raised THEN Raised
                      ELSE Result(t.text \o <<":", ":">> \o m.name \o args, 0)
        ELSE Result(<<"m", "e", "t", "h", "o", "d", "_">> \o Dec(mid)
                    \o <<" ", "(", "a", "r", "g", "s", "=">> \o Dec(narg) \o <<")">>, 0)

\* the InlineField branch
FormatField(pf, dbg, operand) ==
    IF FieldInRange(pf, operand)
    THEN IF ~PyIndexOk(pf.fields, operand) THEN Raised
         ELSE LET fld == PyIndex(pf.fields, operand)
                  t == type_name(pf, dbg, fld.type_id)
              IN  IF t.raised THEN Raised ELSE Result(t.text \o <<":", ":">> \o fld.name, 0)
    ELSE Result(<<"f", "i", "e", "l", "d", "_">> \o Dec(operand), 0)

\* the InlineString branch
FormatString(pf, operand) ==
    IF StringInRange(pf, operand)
    THEN IF ~PyIndexOk(pf.intern_strings, operand) THEN Raised
         ELSE Result(<<Quote>> \o PyIndex(pf.intern_strings, operand) \o <<Quote>>, 0)
    ELSE Result(<<Quote, "s", "t", "r", "_">> \o Dec(operand) \o <<Quote>>, 0)

\* the InlineType branch
FormatType(pf, dbg, operand) ==
    LET t == type_name(pf, dbg, operand)
    IN  IF t.raised THEN Raised ELSE Result(t.text, 0)

\* the Inline8Byte branch
Format8Byte(op_info, i, code) ==
    IF i + 1 < Len(code)
    THEN LET nxt == PyIndex(code, i + 1)
             raw_bytes == Pack8(nxt[1], nxt[2])
         IN  IF op_info.name = "Ldc_R8"
             THEN [val_str |-> DoubleRepr(UnpackDouble(raw_bytes)) \o <<" ", "(", "0", "x">>
                               \o HexOfUInt64(raw_bytes) \o <<")">>,
                   consumed |-> 1, raised |-> FALSE, targets |-> <<>>,
                   val |-> [kind |-> "double", raw |-> raw_bytes, double |-> UnpackDouble(raw_bytes)]]
             ELSE [val_str |-> Int64Repr(nxt[1], nxt[2]),
                   consumed |-> 1, raised |-> FALSE, targets |-> <<>>,
                   val |-> [kind |-> "int64", raw |-> raw_bytes]]
    ELSE Result(<<"<", "E", "O", "F", ">">>, 0)

\* the InlineSwitch branch
FormatSwitch(operand, i, code) ==
    LET count == operand
        targets == SwitchTargets(code, i, count, 0, <<>>)
    IN  [val_str |-> <<"(">>
                     \o Join(<<",", " ">>,
                             [k \in 1..Len(targets) |-> SwitchLabel(i, i + 1 + ((k - 1) \div 2), targets[k])])
                     \o <<")">>,
         consumed |-> slots_needed(count), raised |-> FALSE, targets |-> targets, val |-> NoVal]

\* the InlineInt branch; the repr of the float is one token
FormatInt(op_info, operand) ==
    IF op_info.name \in {"Ldc_I4", "Ldc_I4_S"} /\ AbsGt1000(operand) /\ FloatShown(operand)
    THEN Result(<<"<float>", " ", "(">> \o Dec(operand) \o <<")">>, 0)
    ELSE Result(Dec(operand), 0)

\* Disassembler.format_val: [val_str, consumed, raised, targets, val]
format_val(pf, dbg, op_info, operand, i, code) ==
    LET ot == op_info.operand_type
    IN  CASE ot = "InlineNone" -> Result(<<>>, 0)
          [] ot = "InlineInt" -> FormatInt(op_info, operand)
          [] ot = "InlineString" -> FormatString(pf, operand)
          [] ot = "InlineType" -> FormatType(pf, dbg, operand)
          [] ot = "InlineMethod" -> FormatMethod(pf, dbg, operand)
          [] ot = "InlineField" -> FormatField(pf, dbg, operand)
          [] ot = "InlineBrTarget" -> Result(Label(BrTarget(i, operand)), 0)
          [] ot = "InlineVar" -> Result(<<"V", "_">> \o Dec(operand), 0)
          [] ot = "InlineStackSpace" ->
                Result(<<"M", "a", "x", "S", "t", "a", "c", "k", ":", " ">> \o Dec(operand % 65536)
                       \o <<",", " ", "L", "o", "c", "a", "l", "s", ":", " ">> \o Dec(operand \div 65536), 0)
          [] ot = "Inline8Byte" -> Format8Byte(op_info, i, code)
          [] ot = "InlineSwitch" -> FormatSwitch(operand, i, code)
          [] OTHER -> Result(<<>>, 0)

----------------------------------------------------------------------------
(* Instruction disassembler: print_code over one method *)

\* the tables the listings are rendered against: n entries in each
ExternTypeAt(k) ==
    IF k % 2 = 1 THEN <<"X", ",", " ", "Y", ",", " ", "V", "e", "r", "s", "i", "o", "n", "=", "1">>
    ELSE <<"L", "[", "Y", ",", " ", "Z", "]", ",", " ", "K">>

DisPatch(n, body) ==
    [magic |-> <<0, 0, 0, 0, 0, 0, 0, 0>>,
     bridge_name |-> <<>>, wrappers_manager_name |-> <<>>, assembly_string |-> <<>>,
     extern_types |-> [k \in 1..n |-> ExternTypeAt(k)],
     extern_methods |-> [k \in 1..n |->
         [name |-> <<"c">>, type_id |-> k - 1, params |-> <<>>,
          generic_args |-> IF k % 2 = 1 THEN <<0, n>> ELSE <<>>, is_generic |-> k % 2 = 1]],
     intern_strings |-> [k \in 1..n |-> <<"s">>],
     fields |-> [k \in 1..n |-> [name |-> <<"x">>, type_id |-> k, is_new |-> FALSE]],
     static_fields |-> <<>>, anon_storeys |-> <<>>, fix_infos |-> <<>>, new_classes |-> <<>>,
     methods |-> <<[instructions |-> body,
                    exceptions |-> IF n > 0 THEN << <<0, n - 1, 0, 1, 1, 2>> >> ELSE <<>>]>>]

\* one opcode of each operand kind, and 4, which is no key of OPCODES
DisCodes == {3, 141, 39, 22, 167, 45, 93, 94, 72, 146, 149, 100, 28, 4}

\* operands: small ones, and wide ones (a packed method operand with args, one with
\* the sign bit, the bits of the float 1.0, an integer above 1000)
WideOperands == {131073, -65535, 1065353216, 2000}
DisOperands == (-MaxOperand..MaxOperand) \cup WideOperands

FirstSlots == {<<c, o>> : c \in DisCodes, o \in DisOperands}

\* slots after the first: a branch back by one (as data, the pair 93, -1), the pair
\* (0x40300000, 0), and a switch with one case
TailSlots == {<<93, -1>>, <<1076887552, 0>>, <<149, 1>>}

RECURSIVE SeqsUpTo(_, _)
SeqsUpTo(S, n) ==
    IF n = 0 THEN {<<>>}
    ELSE LET shorter == SeqsUpTo(S, n - 1)
         IN  shorter \cup {Append(q, x) : q \in {r \in shorter : Len(r) = n - 1}, x \in S}

Bodies == {<<f>> \o t : f \in FirstSlots, t \in SeqsUpTo(TailSlots, MaxTail)}

NoLine == [kind |-> "none"]
NoRI == [called |-> FALSE]
NoStorey == [read |-> FALSE]
NoTn == [phase |-> "idle"]
NoCur == [reading |-> "nothing"]
NoSrc == [full |-> <<>>, cut |-> 0, arrays |-> <<>>, wellFormed |-> FALSE]

\* the variables of parse, at rest
ParseIdle ==
    /\ data = <<>> /\ pos = 0 /\ pc = "idle" /\ left = 0 /\ cur = NoCur /\ err = ""
    /\ ri = NoRI /\ storey = NoStorey /\ src = NoSrc

\* the variables of print_code, at rest
DisIdle == insts = <<>> /\ idx = 0 /\ dpc = "idle" /\ last = NoLine /\ lines = 0

Init ==
    /\ \E n \in 0..MaxTable, body \in Bodies : p = DisPatch(n, body)
    /\ debug \in BOOLEAN
    /\ insts = p.methods[1].instructions
    /\ idx = 0
    /\ dpc = "loop"
    /\ last = NoLine
    /\ lines = 0
    /\ tn = NoTn
    /\ ParseIdle

\* debug_prefix = f"[{code:02X} {op:08X}] "
DebugPrefix(dbg, code, op) ==
    IF dbg THEN <<"[">> \o FormatHex(code, 2) \o <<" ">> \o FormatHex(op, 8) \o <<"]", " ">> ELSE <<>>

\* idx += 1 + consumed
NextIndex(i, consumed) == i + 1 + consumed

\* a loop iteration whose opcode is a key of OPCODES
DecodeKnown ==
    /\ dpc = "loop" /\ idx < Len(insts) /\ PyIndexOk(insts, idx)
    /\ LET code == PyIndex(insts, idx)[1]
           op == PyIndex(insts, idx)[2]
       IN  /\ code \in OpcodeKeys
           /\ LET op_info == OPCODES(code)
                  r == format_val(p, debug, op_info, op, idx, insts)
              IN  IF r.raised
                  THEN /\ dpc' = "raised"
                       /\ last' = [kind |-> "raised", idx |-> idx, code |-> code, op |-> op]
                       /\ idx' = idx
                       /\ lines' = lines
                  ELSE /\ dpc' = dpc
                       /\ lines' = 1 - lines
                       /\ last' = [kind |-> "inst", idx |-> idx, code |-> code, op |-> op,
                                   name |-> op_info.name, ot |-> op_info.operand_type,
                                   comment |-> (code = StackSpaceCode),
                                   prefix |-> DebugPrefix(debug, code, op),
                                   val_str |-> r.val_str, consumed |-> r.consumed,
                                   targets |-> r.targets, val |-> r.val]
                       /\ idx' = NextIndex(idx, r.consumed)
    /\ UNCHANGED <<p, debug, insts, tn>> /\ UNCHANGED parseVars

\* idx += 1 of the unknown-opcode branch
UnknownStep_two(i) == i + 2
UnknownStep(i) == i + 1

\* a loop iteration whose opcode is no key of OPCODES
DecodeUnknown ==
    /\ dpc = "loop" /\ idx < Len(insts) /\ PyIndexOk(insts, idx)
    /\ LET code == PyIndex(insts, idx)[1]
           op == PyIndex(insts, idx)[2]
       IN  /\ code \notin OpcodeKeys
           /\ last' = [kind |-> "unknown", idx |-> idx, code |-> code, op |-> op,
                       prefix |-> DebugPrefix(debug, code, op),
                       val_str |-> <<"u", "n", "k", "n", "o", "w", "n", "_", "0", "x">>
                                   \o FormatHex(code, 1) \o <<" ">> \o Dec(op),
                       consumed |-> 0]
           /\ idx' = UnknownStep(idx)
    /\ dpc' = dpc
    /\ lines' = 1 - lines
    /\ UNCHANGED <<p, debug, insts, tn>> /\ UNCHANGED parseVars

\* insts[idx] with idx below -len(insts): IndexError ends print_code
IndexFault ==
    /\ dpc = "loop" /\ idx < Len(insts) /\ ~PyIndexOk(insts, idx)
    /\ dpc' = "raised"
    /\ last' = [kind |-> "fault", idx |-> idx]
    /\ UNCHANGED <<p, debug, insts, idx, lines, tn>> /\ UNCHANGED parseVars

\* one line of the "// Exception Handlers" block
HandlerLine(pf, dbg, eh) ==
    <<".", "t", "r", "y", " ">> \o Label(eh[3]) \o <<" ", "t", "o", " ">> \o Label(eh[4])
    \o <<" ", "c", "a", "t", "c", "h", " ">> \o type_name(pf, dbg, eh[2]).text
    \o <<" ", "h", "a", "n", "d", "l", "e", "r", " ">> \o Label(eh[5]) \o <<" ", "t", "o", " ">> \o Label(eh[6])

\* the loop is left: the exception handlers are printed and the method closed
PrintHandlers ==
    /\ dpc = "loop" /\ ~(idx < Len(insts))
    /\ dpc' = "done"
    /\ last' = [kind |-> "handlers",
                lines |-> [k \in 1..Len(p.methods[1].exceptions) |->
                              HandlerLine(p, debug, p.methods[1].exceptions[k])]]
    /\ UNCHANGED <<p, debug, insts, idx, lines, tn>> /\ UNCHANGED parseVars

Next == DecodeKnown \/ DecodeUnknown \/ IndexFault \/ PrintHandlers

Spec == Init /\ [][Next]_vars

----------------------------------------------------------------------------
(* Properties of print_code and format_val, checked under Spec *)

\* the latest iteration emitted an instruction line at an index of the sequence
Emitted(kind) == last.kind = "inst" /\ last.ot = kind /\ last.idx >= 0

\* k = ceil(n / 2)
IsCeilHalf(k, n) == 2 * k >= n /\ 2 * k < n + 2

\* C2: after the instruction at index i the next index decoded is
\* i + 1 + consumedExtraSlots, where consumedExtraSlots is 0 or 1 for every operand
\* kind other than switch-table and ceil(caseCount / 2) for a switch.
C2_NextIndex ==
    last.kind \in {"inst", "unknown"} =>
        /\ idx = last.idx + 1 + last.consumed
        /\ IF last.kind = "inst" /\ last.ot = "InlineSwitch"
           THEN IsCeilHalf(last.consumed, last.op)
           ELSE last.consumed \in {0, 1}

\* a switch with three cases took two extra slots
C2_Witness ==
    /\ Emitted("InlineSwitch") /\ last.op = 3 /\ last.consumed = 2 /\ idx = last.idx + 3
    /\ last.idx + 3 <= Len(insts)

\* the k-th packed delta after the switch at 0-based index i: first then second
\* integer of each following slot
PackedDelta(code, i, k) == code[(i + 1) + ((k + 1) \div 2)][IF k % 2 = 1 THEN 1 ELSE 2]

\* C3: a switch at index i with case count N, followed by at least ceil(N/2) slots,
\* renders exactly N targets in order, each the label of i + packedDelta.
C3_SwitchTargets ==
    (Emitted("InlineSwitch") /\ last.op >= 0 /\ 2 * (Len(insts) - last.idx - 1) >= last.op) =>
        /\ Len(last.targets) = last.op
        /\ \A k \in 1..last.op : last.targets[k] = PackedDelta(insts, last.idx, k)
        /\ last.val_str = <<"(">> \o Join(<<",", " ">>,
                              [k \in 1..last.op |-> Label(last.idx + PackedDelta(insts, last.idx, k))])
                          \o <<")">>

\* a switch at index 1 with an odd case count rendered its target from the first
\* integer of the last slot alone, relative to index 1
C3_Witness ==
    /\ Emitted("InlineSwitch") /\ last.idx = 1 /\ last.op = 1
    /\ Len(insts) = 3 /\ insts[3] = <<93, -1>>
    /\ last.targets = <<93>>
    /\ last.val_str = <<"(", "I", "L", "_", "0", "0", "5", "E", ")">>

HexDigitVal(c) == CHOOSE v \in 0..15 : HexDigits[v + 1] = c

RECURSIVE HexVal(_)
HexVal(s) == IF s = <<>> THEN 0 ELSE 16 * HexVal(SubSeq(s, 1, Len(s) - 1)) + HexDigitVal(s[Len(s)])

\* the instruction index a label IL_<hex> denotes
LabelValue(s) ==
    LET body == SubSeq(s, 4, Len(s))
    IN  IF Head(body) = "-" THEN -HexVal(Tail(body)) ELSE HexVal(body)

IsLabel(s) ==
    /\ Len(s) >= 7 /\ SubSeq(s, 1, 3) = <<"I", "L", "_">>
    /\ \A k \in 5..Len(s) : s[k] \in {HexDigits[v] : v \in 1..16}
    /\ s[4] \in {HexDigits[v] : v \in 1..16} \cup {"-"}

\* C4: an inline-branch-target instruction at index i with signed delta d renders
\* the label of instruction index i + d and consumes no extra slot.
C4_BranchTarget ==
    Emitted("InlineBrTarget") =>
        /\ IsLabel(last.val_str)
        /\ LabelValue(last.val_str) = last.idx + last.op
        /\ last.consumed = 0

\* a branch at a nonzero index with a nonzero delta was rendered
C4_Witness ==
    /\ Emitted("InlineBrTarget") /\ last.idx = 2 /\ last.op = -1
    /\ last.val_str = <<"I", "L", "_", "0", "0", "0", "1">>

InTable(table, id) == 0 <= id /\ id < Len(table)

Text_UnknownType(id) == <<"U", "n", "k", "n", "o", "w", "n", "T", "y", "p", "e", "(">> \o Dec(id) \o <<")">>
Text_str(id) == <<"s", "t", "r", "_">> \o Dec(id)
Text_field(id) == <<"f", "i", "e", "l", "d", "_">> \o Dec(id)
Text_method(id, n) ==
    <<"m", "e", "t", "h", "o", "d", "_">> \o Dec(id) \o <<" ", "(", "a", "r", "g", "s", "=">> \o Dec(n) \o <<")">>

\* the text a type id stands for: the table entry (under the debug policy) or the
\* placeholder
ExpectedType(id) ==
    IF InTable(p.extern_types, id) THEN ApplyDebugPolicy(debug, p.extern_types[id + 1])
    ELSE Text_UnknownType(id)

\* C5: rendering an operand that references a table never raises; a type, string or
\* field id outside [0, table size) renders UnknownType(id), str_<id>, field_<id>;
\* an inline-method operand whose methodId = operand & 0xFFFF is not below the
\* extern-methods table size renders method_<methodId> (args=<operand >> 16>); an
\* in-range id renders the table entry.
C5_TableOperands ==
    /\ last.kind # "raised"
    /\ (last.kind = "inst" /\ last.ot = "InlineType") => last.val_str = ExpectedType(last.op)
    /\ (last.kind = "inst" /\ last.ot = "InlineString") =>
          last.val_str = <<Quote>> \o (IF InTable(p.intern_strings, last.op)
                                       THEN p.intern_strings[last.op + 1]
                                       ELSE Text_str(last.op)) \o <<Quote>>
    /\ (last.kind = "inst" /\ last.ot = "InlineField") =>
          last.val_str = IF InTable(p.fields, last.op)
                         THEN ExpectedType(p.fields[last.op + 1].type_id) \o <<":", ":">>
                              \o p.fields[last.op + 1].name
                         ELSE Text_field(last.op)
    /\ (last.kind = "inst" /\ last.ot = "InlineMethod") =>
          LET mid == last.op % 65536
          IN  IF mid < Len(p.extern_methods)
              THEN LET m == p.extern_methods[mid + 1]
                   IN  last.val_str =
                         ExpectedType(m.type_id) \o <<":", ":">> \o m.name
                         \o (IF m.generic_args = <<>> THEN <<>>
                             ELSE <<"<">> \o Join(<<",">>, [k \in 1..Len(m.generic_args) |->
                                                              ExpectedType(m.generic_args[k])]) \o <<">">>)
              ELSE last.val_str = Text_method(mid, last.op \div 65536)

\* an inline-method operand with method id 1 and 2 arguments was rendered against
\* a table of one method
C5_Witness ==
    /\ last.kind = "inst" /\ last.ot = "InlineMethod" /\ last.op = 131073
    /\ Len(p.extern_methods) = 1
    /\ last.val_str = <<"m", "e", "t", "h", "o", "d", "_", "1", " ", "(", "a", "r", "g", "s", "=", "2", ")">>

BytesOf40300000 == <<0, 0, 48, 64, 0, 0, 0, 0>>

\* the signed 32-bit integer whose little-endian bytes are b[k+1..k+4]
WordAt(b, k) ==
    b[k + 1] + 256 * b[k + 2] + 65536 * b[k + 3]
    + 16777216 * (IF b[k + 4] >= 128 THEN b[k + 4] - 256 ELSE b[k + 4])

Is16(d) == d.sign = 0 /\ d.exp = 1027 /\ d.frac = <<0, 0, 0, 0, 0, 0, 0>>

\* Ldc_R8 at index i was decoded against a following slot
R8Decoded == Emitted("Inline8Byte") /\ last.name = "Ldc_R8" /\ last.idx + 1 < Len(insts)

\* C6: Ldc_R8 followed by a slot (code, operand) consumes exactly one extra slot and
\* interprets the 8 little-endian bytes of that slot (code the low 32 bits, operand
\* the high 32 bits); for the slot (0x40300000, 0) the pattern is
\* 0x0000000040300000 and the value produced is 16.0.
C6_Original ==
    R8Decoded =>
        /\ last.consumed = 1
        /\ WordAt(last.val.raw, 0) = insts[last.idx + 2][1]
        /\ WordAt(last.val.raw, 4) = insts[last.idx + 2][2]
        /\ insts[last.idx + 2] = <<1076887552, 0>> =>
              /\ last.val.raw = BytesOf40300000
              /\ Is16(last.val.double)

\* C6 as amended: the same, except that the value produced for the slot
\* (0x40300000, 0) is the subnormal double with a zero exponent field and the
\* fraction 0x40300000 (0x40300000 * 2^-1074), which is not 16.0.
C6_Amended ==
    R8Decoded =>
        /\ last.consumed = 1
        /\ WordAt(last.val.raw, 0) = insts[last.idx + 2][1]
        /\ WordAt(last.val.raw, 4) = insts[last.idx + 2][2]
        /\ insts[last.idx + 2] = <<1076887552, 0>> =>
              /\ last.val.raw = BytesOf40300000
              /\ last.val.double = [sign |-> 0, exp |-> 0, frac |-> <<0, 0, 0, 64, 48, 0, 0>>]
              /\ ~Is16(last.val.double)
              /\ last.val_str = <<"<double>", " ", "(", "0", "x", "4", "0", "3", "0", "0", "0", "0", "0", ")">>

\* Ldc_R8 was decoded against the slot (0x40300000, 0)
C6_Witness == R8Decoded /\ insts[last.idx + 2] = <<1076887552, 0>> /\ idx = last.idx + 2

\* the integer a signed hexadecimal or decimal text denotes
SignedHex(s) == IF Head(s) = "-" THEN -HexVal(Tail(s)) ELSE HexVal(s)
DecDigitVal(c) == CHOOSE v \in 0..9 : Digits[v + 1] = c
RECURSIVE DecNatVal(_)
DecNatVal(s) == IF s = <<>> THEN 0 ELSE 10 * DecNatVal(SubSeq(s, 1, Len(s) - 1)) + DecDigitVal(s[Len(s)])
SignedDec(s) == IF Head(s) = "-" THEN -DecNatVal(Tail(s)) ELSE DecNatVal(s)

\* where the first space of a text is
SpaceAt(s) == CHOOSE k \in 1..Len(s) : s[k] = " " /\ \A j \in 1..(k - 1) : s[j] # " "

\* C11: a slot whose first integer is no key of the opcode table gives one diagnostic
\* line carrying the raw code and the raw operand, the index advances by one with no
\* extra slot consumed, and the loop goes on.
C11_UnknownOpcode ==
    last.kind = "unknown" =>
        /\ last.code \notin OpcodeKeys
        /\ PyIndex(insts, last.idx) = <<last.code, last.op>>
        /\ SubSeq(last.val_str, 1, 10) = <<"u", "n", "k", "n", "o", "w", "n", "_", "0", "x">>
        /\ SignedHex(SubSeq(last.val_str, 11, SpaceAt(last.val_str) - 1)) = last.code
        /\ SignedDec(SubSeq(last.val_str, SpaceAt(last.val_str) + 1, Len(last.val_str))) = last.op
        /\ last.consumed = 0
        /\ idx = last.idx + 1
        /\ dpc = "loop"

\* an unknown opcode at index 0 of a three-slot method was reported, and the loop
\* stands at index 1 with slots left to decode
C11_Witness ==
    /\ last.kind = "unknown" /\ last.idx = 0 /\ last.code = 4 /\ last.op = -65535
    /\ last.val_str = <<"u", "n", "k", "n", "o", "w", "n", "_", "0", "x", "4", " ",
                        "-", "6", "5", "5", "3", "5">>
    /\ idx = 1 /\ Len(insts) = 3 /\ dpc = "loop"

\* the slots that follow index i in the sequence
SlotsAfter(i) == Len(insts) - i - 1

\* C12: every slot index the disassembler reads lies in [0, number of slots) and the
\* current index never decreases; an 8-byte instruction with no following slot
\* renders the end-of-data marker, a switch whose slots run past the end renders the
\* targets collected so far, and neither fails the method.
C12_IndexInRange ==
    /\ dpc \in {"loop", "done"}
    /\ idx >= 0
    /\ last.kind \in {"inst", "unknown"} =>
          /\ 0 <= last.idx /\ last.idx < Len(insts)
          /\ idx >= last.idx
          /\ (last.kind = "inst" /\ last.ot = "Inline8Byte") =>
                IF SlotsAfter(last.idx) >= 1
                THEN last.consumed = 1
                ELSE last.consumed = 0 /\ last.val_str = <<"<", "E", "O", "F", ">">>
          /\ (last.kind = "inst" /\ last.ot = "InlineSwitch") =>
                /\ (Len(last.targets) + 1) \div 2 <= SlotsAfter(last.idx)
                /\ Len(last.targets) = IF last.op <= 2 * SlotsAfter(last.idx)
                                       THEN (IF last.op > 0 THEN last.op ELSE 0)
                                       ELSE 2 * SlotsAfter(last.idx)

----------------------------------------------------------------------------
(* Termination of print_code: the interpreter runs the next iteration of the *)
(* while loop whenever there is one, which is weak fairness of Next          *)

\* the methods whose first slot is a switch, a branch or an unknown opcode with a
\* small operand, listed with debug off against a PatchFile with empty tables
LiveCodes == {149, 93, 4}
InitLive ==
    /\ Init
    /\ ~debug /\ p.extern_types = <<>>
    /\ insts[1][1] \in LiveCodes /\ insts[1][2] \in -MaxOperand..MaxOperand

SpecLive == InitLive /\ [][Next]_vars /\ WF_vars(Next)

\* C13: the disassembly of a method terminates for every slot sequence and every
\* operand value: the loop of print_code is eventually left.
C13_Terminates == <>(dpc # "loop")

----------------------------------------------------------------------------
(* _type_name applied to a stored name, and to its own result: SpecName *)

\* stored names are concatenations of at most MaxFrags of these fragments
MaxFrags == 4

NameFrags == {
    <<"X">>, <<"[">>, <<"]">>,
    <<",", " ", "V", "e", "r">>,
    <<",", " ", "V", "e", "r", "s", "i", "o", "n", "=", "1">>,
    <<"s", "i", "o", "n", "=", "2">>,
    <<",", " ", "C", "u", "l", "t", "u", "r", "e", "=", "n", ",", " ",
      "P", "u", "b", "l", "i", "c", "K", "e", "y", "T", "o", "k", "e", "n", "=", "b", "7">> }

RECURSIVE Flatten(_)
Flatten(parts) == IF parts = <<>> THEN <<>> ELSE Head(parts) \o Flatten(Tail(parts))

StoredNames == {Flatten(parts) : parts \in SeqsUpTo(NameFrags, MaxFrags)}

\* a PatchFile whose extern-types table holds one name
NamePatch(name) == [DisPatch(0, <<>>) EXCEPT !.extern_types = <<name>>]

InitName ==
    /\ \E name \in StoredNames : p = NamePatch(name)
    /\ debug \in BOOLEAN
    /\ tn = [phase |-> "start"]
    /\ DisIdle
    /\ ParseIdle

\* self._type_name(id) against the stored name
TypeNameCall ==
    /\ tn.phase = "start"
    /\ \E id \in 0..1 :
          tn' = [phase |-> "once", id |-> id, name |-> p.extern_types[1],
                 first |-> type_name(p, debug, id).text]
    /\ UNCHANGED <<p, debug>> /\ UNCHANGED disVars /\ UNCHANGED parseVars

\* self._type_name(0) against a table that stores the result of the first call
TypeNameAgain ==
    /\ tn.phase = "once" /\ tn.id = 0
    /\ p' = NamePatch(tn.first)
    /\ tn' = [tn EXCEPT !.phase = "twice"] @@ [second |-> type_name(p', debug, 0).text]
    /\ UNCHANGED debug /\ UNCHANGED disVars /\ UNCHANGED parseVars

NextName == TypeNameCall \/ TypeNameAgain

SpecName == InitName /\ [][NextName]_vars

\* C7: the non-debug path of _type_name is idempotent: normalizing a normalized name
\* returns it unchanged.
C7_Idempotent == (tn.phase = "twice" /\ ~debug) => tn.second = tn.first

\* C10: for an in-range type id, the qualifier tokens are stripped in both modes and
\* the truncation is applied only when debug is off.
C10_Original ==
    (tn.phase = "once" /\ tn.id = 0) =>
        tn.first = IF debug THEN StripQualifiers(tn.name) ELSE Truncate(StripQualifiers(tn.name))

\* C10 as amended: for an in-range type id, the qualifier tokens are stripped and the
\* name truncated when debug is off; when debug is on the stored name is returned
\* as it is, qualifier tokens included.
C10_Amended ==
    (tn.phase = "once" /\ tn.id = 0) =>
        tn.first = IF debug THEN tn.name ELSE Truncate(StripQualifiers(tn.name))

\* a stored name with qualifier tokens was rendered in debug mode, and one in
\* normal mode lost a token and was truncated as well
C10_Witness ==
    /\ tn.phase = "once" /\ tn.id = 0 /\ debug
    /\ StripQualifiers(tn.name) # tn.name
    /\ Truncate(StripQualifiers(tn.name)) # StripQualifiers(tn.name)
    /\ tn.first = tn.name

----------------------------------------------------------------------------
(* Byte cursor: BinaryReader over the buffer buf at position q (0-based) *)

\* a read that succeeded, and one that raised
Ok(v, q) == [err |-> "", val |-> v, pos |-> q]
Fail(e, q) == [err |-> e, val |-> <<>>, pos |-> q]

Min(a, b) == IF a <= b THEN a ELSE b

\* self.stream.read(n): at most n bytes, all the rest when n is negative
StreamRead(buf, q, n) ==
    LET e == IF n < 0 \/ n > Len(buf) - q THEN Len(buf) ELSE q + n
    IN  [bytes |-> SubSeq(buf, q + 1, e), pos |-> e]

\* struct.unpack('<i', raw) of 4 bytes
UnpackInt32(raw) ==
    raw[1] + 256 * raw[2] + 65536 * raw[3]
    + 16777216 * (IF raw[4] >= 128 THEN raw[4] - 256 ELSE raw[4])

read_byte(buf, q) ==
    LET r == StreamRead(buf, q, 1)
    IN  IF r.bytes = <<>> THEN Fail("EOFError", r.pos) ELSE Ok(r.bytes[1], r.pos)

read_bool(buf, q) ==
    LET r == read_byte(buf, q)
    IN  IF r.err # "" THEN r ELSE Ok(r.val # 0, r.pos)

\* struct.unpack raises struct.error on a short buffer
read_int(buf, q) ==
    LET r == StreamRead(buf, q, 4)
    IN  IF Len(r.bytes) # 4 THEN Fail("struct.error", r.pos) ELSE Ok(UnpackInt32(r.bytes), r.pos)

\* the 64-bit value is kept as its 8 bytes
read_ulong(buf, q) ==
    LET r == StreamRead(buf, q, 8)
    IN  IF Len(r.bytes) # 8 THEN Fail("struct.error", r.pos) ELSE Ok(r.bytes, r.pos)

\* list(struct.iter_unpack('<ii', raw)) of a buffer whose length is a multiple of 8
IterUnpack(raw) ==
    [k \in 1..(Len(raw) \div 8) |->
        <<UnpackInt32(SubSeq(raw, 8 * k - 7, 8 * k - 4)), UnpackInt32(SubSeq(raw, 8 * k - 3, 8 * k))>>]

\* the size handed to stream.read: 8 * count. A count above len(buf) asks for more
\* than the buffer holds, and is kept at 8 * (len(buf) + 1) to stay within the
\* integers of the checker.
ReadSize(buf, count) == IF count > Len(buf) THEN 8 * (Len(buf) + 1) ELSE 8 * count

\* BinaryReader.read_instructions(count)
read_instructions(buf, q, count) ==
    LET r == StreamRead(buf, q, ReadSize(buf, count))
    IN  IF Len(r.bytes) < ReadSize(buf, count) THEN Fail("EOFError", r.pos)
        ELSE IF Len(r.bytes) % 8 # 0 THEN Fail("struct.error", r.pos)
        ELSE Ok(IterUnpack(r.bytes), r.pos)

\* 2^n
RECURSIVE Pow2(_)
Pow2(n) == IF n = 0 THEN 1 ELSE 2 * Pow2(n - 1)

\* the varint loop of read_string: length |= (byte & 0x7F) << shift
RECURSIVE ReadVarint(_, _, _, _)
ReadVarint(buf, q, length, shift) ==
    LET b == read_byte(buf, q)
    IN  IF b.err # "" THEN b
        ELSE LET l2 == length + (b.val % 128) * Pow2(shift)
             IN  IF b.val < 128 THEN Ok(l2, b.pos) ELSE ReadVarint(buf, b.pos, l2, shift + 7)

\* chr(b) for b < 128; a control character and the backquote are written <hh>
Ascii == <<
    "<00>", "<01>", "<02>", "<03>", "<04>", "<05>", "<06>", "<07>", "<08>", "\t", "\n",
    "<0B>", "<0C>", "\r", "<0E>", "<0F>", "<10>", "<11>", "<12>", "<13>", "<14>", "<15>",
    "<16>", "<17>", "<18>", "<19>", "<1A>", "<1B>", "<1C>", "<1D>", "<1E>", "<1F>", " ",
    "!", "\"", "#", "$", "%", "&", "'", "(", ")", "*", "+", ",", "-", ".", "/", "0", "1",
    "2", "3", "4", "5", "6", "7", "8", "9", ":", ";", "<", "=", ">", "?", "@", "A", "B",
    "C", "D", "E", "F", "G", "H", "I", "J", "K", "L", "M", "N", "O", "P", "Q", "R", "S",
    "T", "U", "V", "W", "X", "Y", "Z", "[", "\\", "]", "^", "_", "<60>", "a", "b", "c", "d",
    "e", "f", "g", "h", "i", "j", "k", "l", "m", "n", "o", "p", "q", "r", "s", "t", "u",
    "v", "w", "x", "y", "z", "{", "|", "}", "~", "<7F>"
>>

\* bytes.decode('utf-8', errors='replace') of ASCII bytes; a byte that starts no
\* valid sequence decodes to U+FFFD (multi-byte sequences are outside the model's
\* inputs)
Utf8Decode(raw) == [k \in 1..Len(raw) |-> IF raw[k] < 128 THEN Ascii[raw[k] + 1] ELSE "<FFFD>"]

\* BinaryReader.read_string
read_string(buf, q) ==
    LET n == ReadVarint(buf, q, 0, 0)
    IN  IF n.err # "" THEN n
        ELSE IF n.val = 0 THEN Ok(<<>>, n.pos)
        ELSE LET r == StreamRead(buf, n.pos, n.val)
             IN  Ok(Utf8Decode(r.bytes), r.pos)

\* n times read_int, appended to acc
RECURSIVE ReadInts(_, _, _, _)
ReadInts(buf, q, n, acc) ==
    IF n <= 0 THEN Ok(acc, q)
    ELSE LET r == read_int(buf, q)
         IN  IF r.err # "" THEN r ELSE ReadInts(buf, r.pos, n - 1, Append(acc, r.val))

\* [r.read_int() for _ in range(r.read_int())]
ReadIntList(buf, q) ==
    LET n == read_int(buf, q)
    IN  IF n.err # "" THEN n ELSE ReadInts(buf, n.pos, n.val, <<>>)

----------------------------------------------------------------------------
(* Deserializer: the loops nested in the records of PatchParser.parse *)

\* eh_count times struct.unpack('<iiiiii', r.stream.read(24))
RECURSIVE ReadHandlers(_, _, _, _)
ReadHandlers(buf, q, n, acc) ==
    IF n <= 0 THEN Ok(acc, q)
    ELSE LET r == StreamRead(buf, q, 24)
         IN  IF Len(r.bytes) # 24 THEN Fail("struct.error", r.pos)
             ELSE ReadHandlers(buf, r.pos, n - 1,
                               Append(acc, [k \in 1..6 |-> UnpackInt32(SubSeq(r.bytes, 4 * k - 3, 4 * k))]))

\* eh_count = r.read_int(), then the handlers
ReadHandlerList(buf, q) ==
    LET n == read_int(buf, q)
    IN  IF n.err # "" THEN n ELSE ReadHandlers(buf, n.pos, n.val, <<>>)

\* the parameter loop of a generic descriptor: a flagged parameter is a string that
\* is read and dropped, any other a type id
RECURSIVE ReadGenericParams(_, _, _, _)
ReadGenericParams(buf, q, n, acc) ==
    IF n <= 0 THEN Ok(acc, q)
    ELSE LET b == read_bool(buf, q)
             t == IF b.val THEN read_string(buf, b.pos) ELSE read_int(buf, b.pos)
         IN  IF b.err # "" THEN b
             ELSE IF t.err # "" THEN t
             ELSE ReadGenericParams(buf, t.pos, n - 1, IF b.val THEN acc ELSE Append(acc, t.val))

\* for _ in range(r.read_int()): the parameter loop
ReadGenericParamList(buf, q) ==
    LET n == read_int(buf, q)
    IN  IF n.err # "" THEN n ELSE ReadGenericParams(buf, n.pos, n.val, <<>>)

\* struct.unpack('<ii', r.stream.read(8))
ReadStaticField(buf, q) ==
    LET r == StreamRead(buf, q, 8)
    IN  IF Len(r.bytes) # 8 THEN Fail("struct.error", r.pos)
        ELSE Ok(<<UnpackInt32(SubSeq(r.bytes, 1, 4)), UnpackInt32(SubSeq(r.bytes, 5, 8))>>, r.pos)

\* name = r.read_string() of a field record, and, for an is-new record, the
\* r.stream.read(8) that follows the append and whose result is not looked at
ReadFieldName(buf, q, is_new) ==
    LET nm == read_string(buf, q)
    IN  IF nm.err # "" \/ ~is_new THEN nm ELSE Ok(nm.val, StreamRead(buf, nm.pos, 8).pos)

\* the dictionary appended to p.anon_storeys
StoreyRecord(parts) == [fields |-> parts.f_types, ctor |-> parts.ctor, vtable |-> parts.vtable]

\* PatchFile.__init__
EmptyPatch ==
    [magic |-> <<0, 0, 0, 0, 0, 0, 0, 0>>,
     bridge_name |-> <<>>, wrappers_manager_name |-> <<>>, assembly_string |-> <<>>,
     extern_types |-> <<>>, extern_methods |-> <<>>, intern_strings |-> <<>>, fields |-> <<>>,
     static_fields |-> <<>>, anon_storeys |-> <<>>, fix_infos |-> <<>>, new_classes |-> <<>>,
     methods |-> <<>>]

----------------------------------------------------------------------------
(* The buffers parse is run on: a container with k records in every table,    *)
(* written in the section order parse reads, and cut after any number of bytes *)

\* records per table
MaxCount == 2

\* a length-prefixed string (lengths below 128: one varint byte)
WStr(bytes) == <<Len(bytes)>> \o bytes

WInts(xs) == Flatten([k \in 1..Len(xs) |-> Int32Bytes(xs[k])])

\* a count-prefixed list of 32-bit integers
WIntList(xs) == Int32Bytes(Len(xs)) \o WInts(xs)

\* record j of each table
WType(j) == WStr(<<84, 48 + j>>)
WMethod(j, code_len) ==
    Int32Bytes(code_len)
    \o Flatten([k \in 1..j |-> IF k % 2 = 1 THEN Pack8(93, -1) ELSE Pack8(149, 0)])
    \o Int32Bytes(j % 2)
    \o (IF j % 2 = 1 THEN WInts(<<0, 0, 0, 1, 1, 1>>) ELSE <<>>)
WMethodDesc(j, generic) ==
    IF generic
    THEN <<1>> \o Int32Bytes(0) \o WStr(<<109, 48 + j>>) \o WIntList(<<0>>)
         \o Int32Bytes(2) \o <<1>> \o WStr(<<33, 48>>) \o <<0>> \o Int32Bytes(0)
    ELSE <<0>> \o Int32Bytes(0) \o WStr(<<109, 48 + j>>) \o WIntList(<<0, 0>>)
WString(j) == WStr(<<115, 48 + j>>)
WField(j) ==
    <<j % 2>> \o Int32Bytes(0) \o WStr(<<102, 48 + j>>)
    \o (IF j % 2 = 1 THEN <<0, 0, 0, 0, 0, 0, 0, 0>> ELSE <<>>)
WStatic(j) == WInts(<<j - 1, 0>>)
WStorey(j) ==
    WIntList([k \in 1..j |-> 0]) \o Int32Bytes(j) \o Int32Bytes(1)
    \o WIntList(<<0>>) \o WIntList([k \in 1..(j % 2) + 1 |-> k])
WFix(j) == WMethodDesc(j, j % 2 = 0) \o Int32Bytes(j - 1)
WNewClass(j) == WStr(<<78, 48 + j>>)

\* a table: the count, then the records
WTable(k, rec(_)) == Int32Bytes(k) \o Flatten([j \in 1..k |-> rec(j)])

\* the declared code_len of method j: its slot count, or -1 in the first method of
\* a container whose count field is not the one a writer would produce
DeclaredLen(j, wf) == IF ~wf /\ j = 1 THEN -1 ELSE j

\* the sections in stream order; array marks the count-prefixed tables
Sections(k, wf) ==
    LET m(j) == WMethod(j, DeclaredLen(j, wf))
        em(j) == WMethodDesc(j, j % 2 = 1)
    IN  << [bytes |-> <<1, 2, 3, 4, 5, 6, 7, 8>> \o WStr(<<66>>), array |-> FALSE],
           [bytes |-> WTable(k, WType), array |-> TRUE],
           [bytes |-> WTable(k, m), array |-> TRUE],
           [bytes |-> WTable(k, em), array |-> TRUE],
           [bytes |-> WTable(k, WString), array |-> TRUE],
           [bytes |-> WTable(k, WField), array |-> TRUE],
           [bytes |-> WTable(k, WStatic), array |-> TRUE],
           [bytes |-> WTable(k, WStorey), array |-> TRUE],
           [bytes |-> WStr(<<87>>) \o WStr(<<>>), array |-> FALSE],
           [bytes |-> WTable(k, WFix), array |-> TRUE],
           [bytes |-> WTable(k, WNewClass), array |-> TRUE] >>

RECURSIVE SectionStart(_, _)
SectionStart(secs, i) == IF i = 1 THEN 0 ELSE SectionStart(secs, i - 1) + Len(secs[i - 1].bytes)

\* the byte extents [from, to) of the count-prefixed tables
ArrayExtents(secs) ==
    {[from |-> SectionStart(secs, i), to |-> SectionStart(secs, i) + Len(secs[i].bytes)] :
        i \in {x \in 1..Len(secs) : secs[x].array}}

WContainer(k, wf) == Flatten([i \in 1..Len(Sections(k, wf)) |-> Sections(k, wf)[i].bytes])

InitParse ==
    /\ \E k \in 0..MaxCount, wf \in BOOLEAN :
          LET full == WContainer(k, wf)
          IN  \E cut \in 0..Len(full) :
                 /\ (k = 0 => wf)
                 /\ data = SubSeq(full, 1, cut)
                 /\ src = [full |-> Len(full), cut |-> cut, arrays |-> ArrayExtents(Sections(k, wf)),
                           wellFormed |-> wf, count |-> k]
    /\ p = EmptyPatch
    /\ pos = 0 /\ pc = "magic" /\ left = 0 /\ cur = NoCur /\ err = ""
    /\ ri = NoRI /\ storey = NoStorey
    /\ debug = FALSE /\ tn = NoTn
    /\ DisIdle

----------------------------------------------------------------------------
(* Deserializer: PatchParser.parse, one action per read statement; pc names  *)
(* the statement reached and cur holds the locals of the record being read   *)

otherVars == <<debug, tn, insts, idx, dpc, last, lines>>

\* the statement s of the descriptor read in the loop pre
At(pre, s) == pre \o "_" \o s

\* "for _ in range(r.read_int()):" of a table is reached: the count is read
CountStep(at, rec, nxt) ==
    /\ pc = at
    /\ LET r == read_int(data, pos)
       IN  /\ pos' = r.pos
           /\ IF r.err # ""
              THEN pc' = "raised" /\ err' = r.err /\ left' = left
              ELSE /\ err' = err
                   /\ left' = (IF r.val > 0 THEN r.val ELSE 0)
                   /\ pc' = (IF r.val > 0 THEN rec ELSE nxt)
    /\ UNCHANGED <<p, cur, ri, storey, data, src>> /\ UNCHANGED otherVars

\* a read statement at pc = at with result r: it raises, or control moves to
\* the statement "to" with the PatchFile, the locals and the loop count as given
Step(at, r, to, newp, newcur, newleft) ==
    /\ pc = at
    /\ pos' = r.pos
    /\ IF r.err # ""
       THEN pc' = "raised" /\ err' = r.err /\ p' = p /\ cur' = cur /\ left' = left
       ELSE pc' = to /\ err' = err /\ p' = newp /\ cur' = newcur /\ left' = newleft
    /\ UNCHANGED <<data, src>> /\ UNCHANGED otherVars

\* a read in the middle of a record: the value goes to a local
Mid(at, r, to, newcur) == Step(at, r, to, p, newcur, left)

\* the last read of a record: the record is appended and the loop goes round
End(at, r, again, nxt, newp) == Step(at, r, IF left = 1 THEN nxt ELSE again, newp, NoCur, left - 1)

\* p.magic = r.read_ulong()
ReadMagic ==
    /\ LET r == read_ulong(data, pos)
       IN  Step("magic", r, "bridge_name", [p EXCEPT !.magic = r.val], cur, left)
    /\ UNCHANGED <<ri, storey>>

\* p.bridge_name = r.read_string()
ReadBridgeName ==
    /\ LET r == read_string(data, pos)
       IN  Step("bridge_name", r, "extern_types_count", [p EXCEPT !.bridge_name = r.val], cur, left)
    /\ UNCHANGED <<ri, storey>>

ReadExternTypesCount ==
    /\ pc = "extern_types_count"
    /\ CountStep("extern_types_count", "extern_type", "methods_count")

ReadExternType ==
    /\ LET r == read_string(data, pos)
       IN  End("extern_type", r, "extern_type", "methods_count",
               [p EXCEPT !.extern_types = Append(@, r.val)])
    /\ UNCHANGED <<ri, storey>>

ReadMethodsCount ==
    /\ pc = "methods_count"
    /\ CountStep("methods_count", "code_len", "extern_methods_count")

\* code_len = r.read_int()
ReadCodeLen ==
    /\ LET r == read_int(data, pos)
       IN  Mid("code_len", r, "insts", [code_len |-> r.val])
    /\ UNCHANGED <<ri, storey>>

\* insts = r.read_instructions(code_len)
ReadInstructions ==
    /\ pc = "insts"
    /\ LET r == read_instructions(data, pos, cur.code_len)
       IN  /\ Mid("insts", r, "eh", cur @@ [insts |-> r.val])
           /\ ri' = [called |-> TRUE, count |-> cur.code_len, before |-> pos, after |-> r.pos,
                     err |-> r.err, n |-> Len(r.val)]
    /\ UNCHANGED storey

\* eh_count, the handlers, and p.methods.append
ReadExceptionHandlers ==
    /\ pc = "eh"
    /\ LET r == ReadHandlerList(data, pos)
       IN  End("eh", r, "code_len", "extern_methods_count",
               [p EXCEPT !.methods = Append(@, [instructions |-> cur.insts, exceptions |-> r.val])])
    /\ UNCHANGED <<ri, storey>>

\* the statements of a method descriptor, in the extern-methods loop (pre = "em",
\* the record ends with the parameters) and in the fix-info loop (pre = "fi",
\* the record ends with patch_id)
DescFlag(pre) ==
    /\ LET r == read_bool(data, pos)
       IN  Mid(At(pre, "is_generic"), r, At(pre, "decl_type"), [is_generic |-> r.val])
    /\ UNCHANGED <<ri, storey>>

DescDeclType(pre) ==
    /\ pc = At(pre, "decl_type")
    /\ LET r == read_int(data, pos)
       IN  Mid(At(pre, "decl_type"), r, At(pre, "name"), cur @@ [type_id |-> r.val])
    /\ UNCHANGED <<ri, storey>>

DescName(pre) ==
    /\ pc = At(pre, "name")
    /\ LET r == read_string(data, pos)
       IN  Mid(At(pre, "name"), r,
               IF cur.is_generic THEN At(pre, "gen_args") ELSE At(pre, "params"),
               cur @@ [name |-> r.val, generic_args |-> <<>>])
    /\ UNCHANGED <<ri, storey>>

\* gen_args = [r.read_int() for _ in range(r.read_int())]
DescGenericArgs(pre) ==
    /\ pc = At(pre, "gen_args")
    /\ LET r == ReadIntList(data, pos)
       IN  Mid(At(pre, "gen_args"), r, At(pre, "gen_params"), [cur EXCEPT !.generic_args = r.val])
    /\ UNCHANGED <<ri, storey>>

\* the descriptor as appended
DescRecord(c, params) ==
    [name |-> c.name, type_id |-> c.type_id, params |-> params,
     generic_args |-> c.generic_args, is_generic |-> c.is_generic]

\* the parameters are read: in the extern-methods loop the record is appended, in
\* the fix-info loop patch_id follows
DescParamsDone(pre, at, r) ==
    IF pre = "em"
    THEN End(at, r, "em_is_generic", "intern_strings_count",
             [p EXCEPT !.extern_methods = Append(@, DescRecord(cur, r.val))])
    ELSE Mid(at, r, "fi_patch_id", cur @@ [params |-> r.val])

DescGenericParams(pre) ==
    /\ pc = At(pre, "gen_params")
    /\ DescParamsDone(pre, At(pre, "gen_params"), ReadGenericParamList(data, pos))
    /\ UNCHANGED <<ri, storey>>

DescPlainParams(pre) ==
    /\ pc = At(pre, "params")
    /\ DescParamsDone(pre, At(pre, "params"), ReadIntList(data, pos))
    /\ UNCHANGED <<ri, storey>>

ReadExternMethodsCount ==
    /\ pc = "extern_methods_count"
    /\ CountStep("extern_methods_count", "em_is_generic", "intern_strings_count")
ExternMethodFlag ==
    /\ pc = "em_is_generic"
    /\ DescFlag("em")
ExternMethodDeclType ==
    /\ pc = "em_decl_type"
    /\ DescDeclType("em")
ExternMethodName ==
    /\ pc = "em_name"
    /\ DescName("em")
ExternMethodGenericArgs ==
    /\ pc = "em_gen_args"
    /\ DescGenericArgs("em")
ExternMethodGenericParams ==
    /\ pc = "em_gen_params"
    /\ DescGenericParams("em")
ExternMethodPlainParams ==
    /\ pc = "em_params"
    /\ DescPlainParams("em")

ReadInternStringsCount ==
    /\ pc = "intern_strings_count"
    /\ CountStep("intern_strings_count", "intern_string", "fields_count")

ReadInternString ==
    /\ LET r == read_string(data, pos)
       IN  End("intern_string", r, "intern_string", "fields_count",
               [p EXCEPT !.intern_strings = Append(@, r.val)])
    /\ UNCHANGED <<ri, storey>>

ReadFieldsCount ==
    /\ pc = "fields_count"
    /\ CountStep("fields_count", "is_new", "static_fields_count")

FieldIsNew ==
    /\ LET r == read_bool(data, pos)
       IN  Mid("is_new", r, "field_decl", [is_new |-> r.val])
    /\ UNCHANGED <<ri, storey>>

FieldDecl ==
    /\ pc = "field_decl"
    /\ LET r == read_int(data, pos)
       IN  Mid("field_decl", r, "field_name", cur @@ [type_id |-> r.val])
    /\ UNCHANGED <<ri, storey>>

\* name = r.read_string(); p.fields.append(...); if is_new: r.stream.read(8)
FieldName ==
    /\ pc = "field_name"
    /\ LET r == ReadFieldName(data, pos, cur.is_new)
       IN  End("field_name", r, "is_new", "static_fields_count",
               [p EXCEPT !.fields = Append(@, [name |-> r.val, type_id |-> cur.type_id,
                                              is_new |-> cur.is_new])])
    /\ UNCHANGED <<ri, storey>>

ReadStaticFieldsCount ==
    /\ pc = "static_fields_count"
    /\ CountStep("static_fields_count", "static_field", "anon_storeys_count")

ReadStaticFieldRec ==
    /\ LET r == ReadStaticField(data, pos)
       IN  End("static_field", r, "static_field", "anon_storeys_count",
               [p EXCEPT !.static_fields = Append(@, r.val)])
    /\ UNCHANGED <<ri, storey>>

ReadAnonStoreysCount ==
    /\ pc = "anon_storeys_count"
    /\ CountStep("anon_storeys_count", "f_types", "names")

\* the statement that follows ctor = r.read_int()
AfterCtor_itfs == "itfs"
AfterCtor == "ctor_p"

StoreyFieldTypes ==
    /\ LET r == ReadIntList(data, pos)
       IN  Mid("f_types", r, "ctor", [f_types |-> r.val, before |-> pos])
    /\ UNCHANGED <<ri, storey>>

StoreyCtor ==
    /\ pc = "ctor"
    /\ LET r == read_int(data, pos)
       IN  Mid("ctor", r, AfterCtor, cur @@ [ctor |-> r.val])
    /\ UNCHANGED <<ri, storey>>

StoreyCtorP ==
    /\ pc = "ctor_p"
    /\ LET r == read_int(data, pos)
       IN  Mid("ctor_p", r, "itfs", cur @@ [ctor_p |-> r.val])
    /\ UNCHANGED <<ri, storey>>

StoreyInterfaces ==
    /\ pc = "itfs"
    /\ LET r == ReadIntList(data, pos)
       IN  Mid("itfs", r, "vtable", cur @@ [itfs |-> r.val])
    /\ UNCHANGED <<ri, storey>>

StoreyVtable ==
    /\ pc = "vtable"
    /\ LET r == ReadIntList(data, pos)
       IN  /\ End("vtable", r, "f_types", "names",
                  [p EXCEPT !.anon_storeys = Append(@, StoreyRecord(cur @@ [vtable |-> r.val]))])
           /\ storey' = IF r.err # "" THEN storey
                        ELSE [read |-> TRUE, before |-> cur.before, after |-> r.pos,
                              parts |-> cur @@ [vtable |-> r.val],
                              stored |-> StoreyRecord(cur @@ [vtable |-> r.val])]
    /\ UNCHANGED ri

\* p.wrappers_manager_name = r.read_string()
ReadWrappersManagerName ==
    /\ LET r == read_string(data, pos)
       IN  Step("names", r, "assembly_string", [p EXCEPT !.wrappers_manager_name = r.val], cur, left)
    /\ UNCHANGED <<ri, storey>>

\* p.assembly_string = r.read_string()
ReadAssemblyString ==
    /\ LET r == read_string(data, pos)
       IN  Step("assembly_string", r, "fix_infos_count", [p EXCEPT !.assembly_string = r.val], cur, left)
    /\ UNCHANGED <<ri, storey>>

ReadFixInfosCount ==
    /\ pc = "fix_infos_count"
    /\ CountStep("fix_infos_count", "fi_is_generic", "new_classes_count")
FixInfoFlag ==
    /\ pc = "fi_is_generic"
    /\ DescFlag("fi")
FixInfoDeclType ==
    /\ pc = "fi_decl_type"
    /\ DescDeclType("fi")
FixInfoName ==
    /\ pc = "fi_name"
    /\ DescName("fi")
FixInfoGenericArgs ==
    /\ pc = "fi_gen_args"
    /\ DescGenericArgs("fi")
FixInfoGenericParams ==
    /\ pc = "fi_gen_params"
    /\ DescGenericParams("fi")
FixInfoPlainParams ==
    /\ pc = "fi_params"
    /\ DescPlainParams("fi")

\* patch_id = r.read_int(); p.fix_infos.append(...)
FixInfoPatchId ==
    /\ pc = "fi_patch_id"
    /\ LET r == read_int(data, pos)
       IN  End("fi_patch_id", r, "fi_is_generic", "new_classes_count",
               [p EXCEPT !.fix_infos = Append(@, DescRecord(cur, cur.params) @@ [patch_id |-> r.val])])
    /\ UNCHANGED <<ri, storey>>

\* after the last table parse returns p
ReadNewClassesCount ==
    /\ pc = "new_classes_count"
    /\ CountStep("new_classes_count", "new_class", "done")

ReadNewClass ==
    /\ LET r == read_string(data, pos)
       IN  End("new_class", r, "new_class", "done", [p EXCEPT !.new_classes = Append(@, r.val)])
    /\ UNCHANGED <<ri, storey>>

NextParse ==
    \/ ReadMagic \/ ReadBridgeName
    \/ ReadExternTypesCount \/ ReadExternType
    \/ ReadMethodsCount \/ ReadCodeLen \/ ReadInstructions \/ ReadExceptionHandlers
    \/ ReadExternMethodsCount \/ ExternMethodFlag \/ ExternMethodDeclType \/ ExternMethodName
    \/ ExternMethodGenericArgs \/ ExternMethodGenericParams \/ ExternMethodPlainParams
    \/ ReadInternStringsCount \/ ReadInternString
    \/ ReadFieldsCount \/ FieldIsNew \/ FieldDecl \/ FieldName
    \/ ReadStaticFieldsCount \/ ReadStaticFieldRec
    \/ ReadAnonStoreysCount \/ StoreyFieldTypes \/ StoreyCtor \/ StoreyCtorP
    \/ StoreyInterfaces \/ StoreyVtable
    \/ ReadWrappersManagerName \/ ReadAssemblyString
    \/ ReadFixInfosCount \/ FixInfoFlag \/ FixInfoDeclType \/ FixInfoName
    \/ FixInfoGenericArgs \/ FixInfoGenericParams \/ FixInfoPlainParams \/ FixInfoPatchId
    \/ ReadNewClassesCount \/ ReadNewClass

SpecParse == InitParse /\ [][NextParse]_vars

----------------------------------------------------------------------------
(* Properties of PatchParser.parse, checked under SpecParse *)

\* the input ends strictly inside the bytes of a count-prefixed table
CutInsideArray == \E a \in src.arrays : a.from < src.cut /\ src.cut < a.to

\* C1: on a prefix of a well-formed container cut off inside a count-prefixed array,
\* parse fails; it never returns a Container.
C1_TruncationRaises == (src.wellFormed /\ CutInsideArray) => pc # "done"

\* C8: read_instructions(n) returns exactly n slots and advances the cursor by 8n
\* bytes, or fails with the truncated-instruction-block error (EOFError).
C8_ExactBlock ==
    ri.called =>
        \/ ri.err = "EOFError"
        \/ ri.err = "" /\ ri.n = ri.count /\ ri.after = ri.before + 8 * ri.count

\* the 32-bit integer at byte offset off of the input (-1 where fewer than four
\* bytes lie at that offset), and n of them in a row
Int32At(off) ==
    IF off >= 0 /\ off + 4 <= Len(data) THEN UnpackInt32(SubSeq(data, off + 1, off + 4)) ELSE -1
IntsAt(off, n) == [k \in 1..n |-> Int32At(off + 4 * (k - 1))]

\* C9: an anonymous-storey record is a field-type list, a constructor id, an
\* interface list and a vtable list; the cursor advances by
\* 4*(4 + nFields + nInterfaces + nVtable) and the stored record has all four.
C9_Original ==
    storey.read =>
        /\ storey.after - storey.before
              = 4 * (4 + Len(storey.parts.f_types) + Len(storey.parts.itfs) + Len(storey.parts.vtable))
        /\ DOMAIN storey.stored = {"fields", "ctor", "interfaces", "vtable"}

\* C9 as amended: between the constructor id and the interface list one more 32-bit
\* integer is read; the cursor advances by 4*(5 + nFields + nInterfaces + nVtable),
\* and the stored record has the field types, the constructor id and the vtable (the
\* extra integer and the interface list are read and dropped).
C9_Amended ==
    storey.read =>
        LET b == storey.before
            nF == Int32At(b)
            oC == b + 4 + 4 * nF
            oI == oC + 8
            nI == Int32At(oI)
            oV == oI + 4 + 4 * nI
            nV == Int32At(oV)
        IN  /\ storey.after = b + 4 * (5 + nF + nI + nV)
            /\ storey.stored = [fields |-> IntsAt(b + 4, nF), ctor |-> Int32At(oC),
                                vtable |-> IntsAt(oV + 4, nV)]

\* a storey with two field types, an interface and two vtable entries was read
C9_Witness ==
    /\ storey.read
    /\ Len(storey.stored.fields) = 2 /\ storey.stored.ctor = 2
    /\ Len(storey.parts.itfs) = 1 /\ Len(storey.stored.vtable) = 1
    /\ storey.after - storey.before = 36

====
